---- MODULE Spec2Model ----
(***************************************************************************)
(* Model of serverfinal.js: three Express route handlers that relay an     *)
(* uploaded PDF or a free-text query to Gemini or Groq.  Every handler is  *)
(* cut at its await points; the code between two awaits is one action.     *)
(* Concurrent requests interleave at those points only (one event loop).   *)
(***************************************************************************)
EXTENDS Naturals, Sequences, FiniteSets, TLC

\* ---------------------------------------------------------------- bounds
NumReqs == 2
MaxLen == 2

Reqs == 1..NumReqs

\* ------------------------------------------------------- optional values
\* undefined / absent is the empty sequence, a present value v is <<v>>
None == <<>>
Some(v) == <<v>>

\* JavaScript falsiness of an optional string: undefined or ""
Falsy(o) == o = None \/ o[1] = ""

\* ------------------------------------------------------------ text values
Alphabet == {"*", "a", "b"}

SeqsUpTo(n) == UNION {[1..k -> Alphabet] : k \in 0..n}

RiskText == <<"*", "R", "i", "s", "k", "*">>

\* texts result.response.text() may return
GeminiTexts == SeqsUpTo(MaxLen) \cup {RiskText}

\* textResponse.replace(/\*/g, "") with a first-only variant (no g flag)
RECURSIVE StripFirstStar(_)
StripFirstStar(t) ==
    IF t = <<>> THEN <<>>
    ELSE IF Head(t) = "*" THEN Tail(t)
    ELSE <<Head(t)>> \o StripFirstStar(Tail(t))

RECURSIVE StripStars(_)
StripStars(t) ==
    IF t = <<>> THEN <<>>
    ELSE IF Head(t) = "*" THEN StripStars(Tail(t))
    ELSE <<Head(t)>> \o StripStars(Tail(t))

\* ------------------------------------------------------------ the routes
Routes == {"/analyzecontract", "/analyzepdf", "/analyze"}

ContractFile == [fieldname |-> "contract"]
PdfFile == [fieldname |-> "pdf"]

Queries == {None, Some(""), Some("define force majeure")}

\* what the middleware hands to the handler: req.file and req.body
RequestsOf(rt) ==
    IF rt = "/analyzecontract"
    THEN {[route |-> rt, file |-> f, body |-> [query |-> None]] :
              f \in {None, Some(ContractFile)}}
    ELSE IF rt = "/analyzepdf"
    THEN {[route |-> rt, file |-> f, body |-> [query |-> None]] :
              f \in {None, Some(PdfFile)}}
    ELSE {[route |-> rt, file |-> None, body |-> [query |-> q]] :
              q \in Queries}

NoRequest == [route |-> "none", file |-> None, body |-> [query |-> None]]

\* path.join(__dirname, req.file.path): multer names every upload uniquely
FilePath(r) == r

VARIABLES
    pc,          \* position of each request's handler
    req,         \* the request as the handler sees it
    files,       \* staged files present in uploads/
    responses,   \* responses actually sent, per request
    attempts,    \* calls of res.json per request
    geminiCalls, \* model.generateContent calls per request
    groqCalls,   \* groq.chat.completions.create calls per request
    unlinks,     \* successful fs.unlinkSync calls per request
    pdfText,     \* pdfParse's text output for the request's buffer
    prompt,      \* message content sent to Groq
    outcome,     \* what the file system, extractor or provider answered
    log          \* order of the steps taken for the request

vars == <<pc, req, files, responses, attempts, geminiCalls, groqCalls,
          unlinks, pdfText, prompt, outcome, log>>

Init ==
    /\ pc = [r \in Reqs |-> "idle"]
    /\ req = [r \in Reqs |-> NoRequest]
    /\ files = {}
    /\ responses = [r \in Reqs |-> <<>>]
    /\ attempts = [r \in Reqs |-> 0]
    /\ geminiCalls = [r \in Reqs |-> 0]
    /\ groqCalls = [r \in Reqs |-> 0]
    /\ unlinks = [r \in Reqs |-> 0]
    /\ pdfText = [r \in Reqs |-> None]
    /\ prompt = [r \in Reqs |-> None]
    /\ outcome = [r \in Reqs |-> None]
    /\ log = [r \in Reqs |-> <<>>]

\* ------------------------------------------------------- upload middleware
\* uploadDisk writes the "contract" file under uploads/; uploadMemory and
\* express.json keep their input in memory.
Arrive(r) ==
    /\ pc[r] = "idle"
    /\ \E rt \in Routes : \E q \in RequestsOf(rt) :
          /\ req' = [req EXCEPT ![r] = q]
          /\ IF rt = "/analyzecontract" /\ q.file # None
             THEN /\ files' = files \cup {FilePath(r)}
                  /\ log' = [log EXCEPT ![r] = Append(@, "staged")]
             ELSE UNCHANGED <<files, log>>
    /\ pc' = [pc EXCEPT ![r] = "handler"]
    /\ UNCHANGED <<responses, attempts, geminiCalls, groqCalls, unlinks,
                   pdfText, prompt, outcome>>

\* ------------------------------------------------------- shared helpers
\* if (!req.file)
NoFile(q) == q.file = None

\* res.status(status).json(body) as the first response of request r
Sent(r, status, body) ==
    [responses EXCEPT ![r] = Append(@, [status |-> status, body |-> body])]

Returned(v) == [raised |-> FALSE, value |-> v]
Raised(m) == [raised |-> TRUE, value |-> m]

\* ------------------------------------------------ analyzeContractWithGemini
\* fs.readFileSync(filePath): succeeds only on an existing file
ReadOutcomes(path) ==
    IF path \in files THEN {"ok", "EACCES: permission denied"}
    ELSE {"ENOENT: no such file or directory"}

\* fs.unlinkSync(filePath)
UnlinkOutcomes(path) ==
    IF path \in files THEN {"ok", "EPERM: operation not permitted"}
    ELSE {"ENOENT: no such file or directory"}

\* what await model.generateContent(...) and result.response.text() can do
GeminiOutcomes ==
    {[kind |-> "reject", msg |-> "fetch failed", text |-> <<>>],
     [kind |-> "invalid", msg |-> "", text |-> <<>>],
     [kind |-> "textThrows", msg |-> "Response was blocked", text |-> <<>>]}
    \cup {[kind |-> "text", msg |-> "", text |-> t] : t \in GeminiTexts}

\* the catch block of the adapter
AnalysisFailureMessage_Bare(m) == m

AnalysisFailureMessage(m) == "Failed to analyze contract. Details: " \o m

\* the adapter from the return of generateContent to its own return
AnalyzeContractResult(out) ==
    IF out.kind = "reject" THEN Raised(AnalysisFailureMessage(out.msg))
    ELSE IF out.kind = "invalid"
    THEN Raised(AnalysisFailureMessage("Invalid response from Gemini API"))
    ELSE IF out.kind = "textThrows"
    THEN Raised(AnalysisFailureMessage(out.msg))
    ELSE Returned(StripStars(out.text))

\* ------------------------------------------------------- /analyzecontract
\* handler entry up to await model.generateContent
ContractHandler(r) ==
    /\ pc[r] = "handler"
    /\ req[r].route = "/analyzecontract"
    /\ IF NoFile(req[r])
       THEN /\ responses' = Sent(r, 400, [error |-> "No file uploaded"])
            /\ attempts' = [attempts EXCEPT ![r] = @ + 1]
            /\ pc' = [pc EXCEPT ![r] = "done"]
            /\ UNCHANGED <<geminiCalls, log, outcome>>
       ELSE \E rd \in ReadOutcomes(FilePath(r)) :
              IF rd = "ok"
              THEN /\ geminiCalls' = [geminiCalls EXCEPT ![r] = @ + 1]
                   /\ log' = [log EXCEPT ![r] = @ \o <<"read", "invoked">>]
                   /\ pc' = [pc EXCEPT ![r] = "awaitGemini"]
                   /\ UNCHANGED <<responses, attempts, outcome>>
              ELSE /\ responses' =
                         Sent(r, 500, [error |-> AnalysisFailureMessage(rd)])
                   /\ attempts' = [attempts EXCEPT ![r] = @ + 1]
                   /\ log' = [log EXCEPT ![r] =
                                  @ \o <<"readFailed", "responded500">>]
                   /\ pc' = [pc EXCEPT ![r] = "done"]
                   /\ outcome' = [outcome EXCEPT ![r] =
                          Some([kind |-> "readFailed", msg |-> rd,
                                text |-> <<>>])]
                   /\ UNCHANGED geminiCalls
    /\ UNCHANGED <<req, files, groqCalls, unlinks, pdfText, prompt>>

\* res.json({ analysis }); fs.unlinkSync(filePath); and, when unlinkSync
\* throws, the catch block's res.status(500).json on the sent response,
\* which throws out of the handler.  The variant unlinks before it responds.
ContractSuccess_UnlinkFirst(r, analysis) ==
    /\ \E u \in UnlinkOutcomes(FilePath(r)) :
          IF u = "ok"
          THEN /\ files' = files \ {FilePath(r)}
               /\ unlinks' = [unlinks EXCEPT ![r] = @ + 1]
               /\ responses' = Sent(r, 200, [analysis |-> analysis])
               /\ log' = [log EXCEPT ![r] =
                              @ \o <<"unlinked", "responded200">>]
          ELSE /\ responses' = Sent(r, 500, [error |-> u])
               /\ log' = [log EXCEPT ![r] =
                              @ \o <<"unlinkFailed", "responded500">>]
               /\ UNCHANGED <<files, unlinks>>
    /\ attempts' = [attempts EXCEPT ![r] = @ + 1]
    /\ pc' = [pc EXCEPT ![r] = "done"]
    /\ UNCHANGED geminiCalls

ContractSuccess(r, analysis) ==
    /\ responses' = Sent(r, 200, [analysis |-> analysis])
    /\ \E u \in UnlinkOutcomes(FilePath(r)) :
          IF u = "ok"
          THEN /\ files' = files \ {FilePath(r)}
               /\ unlinks' = [unlinks EXCEPT ![r] = @ + 1]
               /\ attempts' = [attempts EXCEPT ![r] = @ + 1]
               /\ log' = [log EXCEPT ![r] =
                              @ \o <<"responded200", "unlinked">>]
               /\ pc' = [pc EXCEPT ![r] = "done"]
          ELSE /\ attempts' = [attempts EXCEPT ![r] = @ + 2]
               /\ log' = [log EXCEPT ![r] =
                              @ \o <<"responded200", "unlinkFailed">>]
               /\ pc' = [pc EXCEPT ![r] = "rejected"]
               /\ UNCHANGED <<files, unlinks>>
    /\ UNCHANGED geminiCalls

\* the catch block of the handler for a failure of the adapter, with a
\* variant that calls the provider once more before giving up
ContractFailure_Retry(r, message) ==
    IF geminiCalls[r] < 2
    THEN /\ geminiCalls' = [geminiCalls EXCEPT ![r] = @ + 1]
         /\ log' = [log EXCEPT ![r] = Append(@, "invoked")]
         /\ UNCHANGED <<responses, attempts, pc, files, unlinks>>
    ELSE /\ responses' = Sent(r, 500, [error |-> message])
         /\ attempts' = [attempts EXCEPT ![r] = @ + 1]
         /\ log' = [log EXCEPT ![r] = Append(@, "responded500")]
         /\ pc' = [pc EXCEPT ![r] = "done"]
         /\ UNCHANGED <<files, unlinks, geminiCalls>>

ContractFailure(r, message) ==
    /\ responses' = Sent(r, 500, [error |-> message])
    /\ attempts' = [attempts EXCEPT ![r] = @ + 1]
    /\ log' = [log EXCEPT ![r] = Append(@, "responded500")]
    /\ pc' = [pc EXCEPT ![r] = "done"]
    /\ UNCHANGED <<files, unlinks, geminiCalls>>

\* resumption after await model.generateContent
GeminiReturn(r) ==
    /\ pc[r] = "awaitGemini"
    /\ \E out \in GeminiOutcomes :
          LET res == AnalyzeContractResult(out) IN
          /\ outcome' = [outcome EXCEPT ![r] = Some(out)]
          /\ IF res.raised THEN ContractFailure(r, res.value)
             ELSE ContractSuccess(r, res.value)
    /\ UNCHANGED <<req, groqCalls, pdfText, prompt>>

\* ---------------------------------------------------- Groq chat adapters
\* what await groq.chat.completions.create(...) can do: reject, resolve to
\* an object without a choices array, or resolve with a list of choices
\* whose message content may be absent or empty
GroqOutcomes ==
    {[kind |-> "reject", choices |-> <<>>],
     [kind |-> "malformed", choices |-> <<>>]}
    \cup {[kind |-> "choices", choices |-> c] :
              c \in {<<>>, <<None>>, <<Some("")>>, <<Some("answer")>>}}

\* chatCompletion.choices[0]?.message?.content
FirstContent(choices) == IF Len(choices) = 0 THEN None ELSE choices[1]

\* the template literal of getGroqChatCompletion
GroqPrompt(pdfContent) ==
    pdfContent \o
    "\n\nCompare it with new Indian laws and highlight what are added or removed (changes)."

\* getGroqChatCompletion without its try/catch
GetGroqChatCompletion_NoCatch(out) ==
    IF out.kind # "choices" THEN Raised("Groq API error")
    ELSE IF Falsy(FirstContent(out.choices))
    THEN Returned("No response from Groq.")
    ELSE Returned(FirstContent(out.choices)[1])

GetGroqChatCompletion(out) ==
    IF out.kind # "choices" THEN Returned("Error processing text with Groq.")
    ELSE IF Falsy(FirstContent(out.choices))
    THEN Returned("No response from Groq.")
    ELSE Returned(FirstContent(out.choices)[1])

GetGroqChatCompletionForQuery(out) ==
    IF out.kind # "choices" THEN Returned("Error processing query with Groq.")
    ELSE IF Falsy(FirstContent(out.choices))
    THEN Returned("No response")
    ELSE Returned(FirstContent(out.choices)[1])

\* ------------------------------------------------------------ /analyzepdf
\* texts pdfParse may extract from an uploaded buffer
PdfTexts == {"", "Lease deed"}

ParseOutcomes ==
    {[ok |-> FALSE, text |-> ""]} \cup {[ok |-> TRUE, text |-> t] : t \in PdfTexts}

\* handler entry up to await pdfParse
PdfHandler(r) ==
    /\ pc[r] = "handler"
    /\ req[r].route = "/analyzepdf"
    /\ IF NoFile(req[r])
       THEN /\ responses' = Sent(r, 400, [error |-> "PDF file is required."])
            /\ attempts' = [attempts EXCEPT ![r] = @ + 1]
            /\ pc' = [pc EXCEPT ![r] = "done"]
            /\ UNCHANGED log
       ELSE /\ pc' = [pc EXCEPT ![r] = "awaitParse"]
            /\ log' = [log EXCEPT ![r] = Append(@, "parsing")]
            /\ UNCHANGED <<responses, attempts>>
    /\ UNCHANGED <<req, files, geminiCalls, groqCalls, unlinks, pdfText,
                   prompt, outcome>>

\* resumption after await pdfParse up to await groq...create
ParseReturn(r) ==
    /\ pc[r] = "awaitParse"
    /\ \E out \in ParseOutcomes :
          IF out.ok
          THEN /\ pdfText' = [pdfText EXCEPT ![r] = Some(out.text)]
               /\ prompt' = [prompt EXCEPT ![r] = Some(GroqPrompt(out.text))]
               /\ groqCalls' = [groqCalls EXCEPT ![r] = @ + 1]
               /\ pc' = [pc EXCEPT ![r] = "awaitGroq"]
               /\ UNCHANGED <<responses, attempts, outcome>>
          ELSE /\ responses' =
                     Sent(r, 500, [error |-> "Error analyzing the PDF."])
               /\ attempts' = [attempts EXCEPT ![r] = @ + 1]
               /\ pc' = [pc EXCEPT ![r] = "done"]
               /\ outcome' = [outcome EXCEPT ![r] =
                      Some([kind |-> "parseFailed", choices |-> <<>>])]
               /\ UNCHANGED <<pdfText, prompt, groqCalls>>
    /\ UNCHANGED <<req, files, geminiCalls, unlinks, log>>

\* res.json({ pdfContent: pdfText.text, groqResponse }), with a variant
\* that echoes the prompt instead of the extracted text
PdfSuccessBody_Prompt(r, groqResponse) ==
    [pdfContent |-> prompt[r][1], groqResponse |-> groqResponse]

PdfSuccessBody(r, groqResponse) ==
    [pdfContent |-> pdfText[r][1], groqResponse |-> groqResponse]

\* resumption after await groq...create in getGroqChatCompletion
PdfGroqReturn(r) ==
    /\ pc[r] = "awaitGroq"
    /\ req[r].route = "/analyzepdf"
    /\ \E out \in GroqOutcomes :
          LET res == GetGroqChatCompletion(out) IN
          /\ outcome' = [outcome EXCEPT ![r] = Some(out)]
          /\ IF res.raised
             THEN responses' =
                      Sent(r, 500, [error |-> "Error analyzing the PDF."])
             ELSE responses' = Sent(r, 200, PdfSuccessBody(r, res.value))
    /\ attempts' = [attempts EXCEPT ![r] = @ + 1]
    /\ pc' = [pc EXCEPT ![r] = "done"]
    /\ UNCHANGED <<req, files, geminiCalls, groqCalls, unlinks, pdfText,
                   prompt, log>>

\* -------------------------------------------------------------- /analyze
\* if (!query), with a variant that never rejects
QueryMissing_Never(body) == FALSE

QueryMissing(body) == Falsy(body.query)

\* handler entry up to await groq...create
AnalyzeHandler(r) ==
    /\ pc[r] = "handler"
    /\ req[r].route = "/analyze"
    /\ IF QueryMissing(req[r].body)
       THEN /\ responses' =
                  Sent(r, 400, [error |-> "Query text is required."])
            /\ attempts' = [attempts EXCEPT ![r] = @ + 1]
            /\ pc' = [pc EXCEPT ![r] = "done"]
            /\ UNCHANGED <<prompt, groqCalls>>
       ELSE /\ prompt' = [prompt EXCEPT ![r] = req[r].body.query]
            /\ groqCalls' = [groqCalls EXCEPT ![r] = @ + 1]
            /\ pc' = [pc EXCEPT ![r] = "awaitGroq"]
            /\ UNCHANGED <<responses, attempts>>
    /\ UNCHANGED <<req, files, geminiCalls, unlinks, pdfText, outcome, log>>

\* resumption after await groq...create in getGroqChatCompletionForQuery
AnalyzeGroqReturn(r) ==
    /\ pc[r] = "awaitGroq"
    /\ req[r].route = "/analyze"
    /\ \E out \in GroqOutcomes :
          LET res == GetGroqChatCompletionForQuery(out) IN
          /\ outcome' = [outcome EXCEPT ![r] = Some(out)]
          /\ IF res.raised
             THEN responses' =
                      Sent(r, 500, [error |-> "Failed to fetch AI insights"])
             ELSE responses' = Sent(r, 200, [analysis |-> res.value])
    /\ attempts' = [attempts EXCEPT ![r] = @ + 1]
    /\ pc' = [pc EXCEPT ![r] = "done"]
    /\ UNCHANGED <<req, files, geminiCalls, groqCalls, unlinks, pdfText,
                   prompt, log>>

\* ------------------------------------------------------------------ system
Next ==
    \E r \in Reqs :
        \/ Arrive(r)
        \/ ContractHandler(r)
        \/ GeminiReturn(r)
        \/ PdfHandler(r)
        \/ ParseReturn(r)
        \/ PdfGroqReturn(r)
        \/ AnalyzeHandler(r)
        \/ AnalyzeGroqReturn(r)

Spec == Init /\ [][Next]_vars

\* ============================================================== properties
Terminal(r) == pc[r] \in {"done", "rejected"}

Statuses(r) == {responses[r][i].status : i \in DOMAIN responses[r]}

IsContract(r) == req[r].route = "/analyzecontract"
IsPdf(r) == req[r].route = "/analyzepdf"
IsQuery(r) == req[r].route = "/analyze"

OutcomeKind(r) == IF outcome[r] = None THEN "none" ELSE outcome[r][1].kind

\* C1: once an /analyzecontract request whose provider was invoked has
\* completed (provider answered or failed, the file system not refusing the
\* deletion), its staged file is gone from uploads/ and was deleted exactly
\* once.
C1_StagedFileDeletedExactlyOnce ==
    \A r \in Reqs :
        (IsContract(r) /\ Terminal(r) /\ geminiCalls[r] = 1
            /\ OutcomeKind(r) \in {"text", "reject", "invalid", "textThrows"}
            /\ pc[r] # "rejected")
        => (FilePath(r) \notin files /\ unlinks[r] = 1)

\* C2: a request without its required input (no "contract" file, no "pdf"
\* file, no or empty "query") never causes a provider call or a PDF
\* extraction, and once handled it has exactly the endpoint's 400 response.
LacksInput(r) ==
    \/ (IsContract(r) \/ IsPdf(r)) /\ req[r].file = None
    \/ IsQuery(r) /\ (req[r].body.query = None \/ req[r].body.query = Some(""))

MissingInputBody(r) ==
    IF IsContract(r) THEN [error |-> "No file uploaded"]
    ELSE IF IsPdf(r) THEN [error |-> "PDF file is required."]
    ELSE [error |-> "Query text is required."]

C2_MissingInputIs400WithoutProviderCall ==
    \A r \in Reqs :
        LacksInput(r) =>
            /\ geminiCalls[r] = 0 /\ groqCalls[r] = 0
            /\ pdfText[r] = None /\ pc[r] \notin {"awaitParse", "awaitGroq",
                                                  "awaitGemini"}
            /\ log[r] = <<>>
            /\ pc[r] # "handler" =>
                   /\ Terminal(r)
                   /\ responses[r] =
                          <<[status |-> 400, body |-> MissingInputBody(r)]>>

C2_Witness ==
    \E r1, r2 \in Reqs :
        /\ IsQuery(r1) /\ LacksInput(r1) /\ Terminal(r1)
        /\ IsContract(r2) /\ LacksInput(r2) /\ Terminal(r2)

\* C3: every request has at most one response and at most one attempt to
\* send one, and a completed request has exactly one of each.
C3_ExactlyOneResponse ==
    \A r \in Reqs :
        /\ attempts[r] <= 1
        /\ Len(responses[r]) <= 1
        /\ Terminal(r) => (attempts[r] = 1 /\ Len(responses[r]) = 1)

\* C4: a request that called Groq always ends in one 200 response: the
\* adapters turn a failed call into their error string and a reply without
\* usable content into their "no response" string.
GroqFallback(r, out) ==
    IF out.kind # "choices"
    THEN IF IsPdf(r) THEN "Error processing text with Groq."
         ELSE "Error processing query with Groq."
    ELSE IF IsPdf(r) THEN "No response from Groq." ELSE "No response"

GroqText(r) ==
    IF IsPdf(r) THEN responses[r][1].body.groqResponse
    ELSE responses[r][1].body.analysis

C4_TextAdaptersNeverRaise ==
    \A r \in Reqs :
        (groqCalls[r] > 0 /\ Terminal(r)) =>
            /\ Len(responses[r]) = 1
            /\ responses[r][1].status = 200
            /\ LET out == outcome[r][1] IN
               (out.kind # "choices" \/ out.choices = <<>>)
                   => GroqText(r) = GroqFallback(r, out)

C4_Witness ==
    \E r1, r2 \in Reqs :
        /\ IsPdf(r1) /\ Terminal(r1) /\ OutcomeKind(r1) = "reject"
        /\ responses[r1][1].status = 200
        /\ IsQuery(r2) /\ Terminal(r2) /\ OutcomeKind(r2) = "choices"
        /\ outcome[r2][1].choices = <<>>
        /\ responses[r2][1].status = 200

\* C5: an /analyzecontract request whose provider response is malformed or
\* has empty text never gets a 200 response; it gets a 500.
EmptyOrMalformed(r) ==
    \/ OutcomeKind(r) = "invalid"
    \/ OutcomeKind(r) = "text" /\ outcome[r][1].text = <<>>

C5_EmptyProviderResponseIs500 ==
    \A r \in Reqs :
        (IsContract(r) /\ Terminal(r) /\ EmptyOrMalformed(r)) =>
            Statuses(r) = {500}

\* C6: when the adapter fails (file read, provider call, invalid response,
\* text() throwing) the request has exactly one response, a 500 whose error
\* is "Failed to analyze contract. Details: " followed by the underlying
\* message.
AdapterFailed(r) ==
    OutcomeKind(r) \in {"readFailed", "reject", "invalid", "textThrows"}

UnderlyingMessage(r) ==
    IF OutcomeKind(r) = "invalid" THEN "Invalid response from Gemini API"
    ELSE outcome[r][1].msg

C6_AdapterFailureIsWrapped500 ==
    \A r \in Reqs :
        (IsContract(r) /\ AdapterFailed(r)) =>
            /\ Terminal(r)
            /\ responses[r] =
                 <<[status |-> 500,
                    body |-> [error |->
                        "Failed to analyze contract. Details: "
                            \o UnderlyingMessage(r)]]>>

C6_Witness ==
    \E r1, r2 \in Reqs :
        /\ IsContract(r1) /\ OutcomeKind(r1) = "reject"
        /\ IsContract(r2) /\ OutcomeKind(r2) = "readFailed"

\* C7: a request makes at most one provider call, to Gemini on
\* /analyzecontract and to Groq on the other two routes, and a request that
\* was answered 200 made exactly one.
C7_AtMostOneProviderCall ==
    \A r \in Reqs :
        /\ geminiCalls[r] + groqCalls[r] <= 1
        /\ geminiCalls[r] > 0 => IsContract(r)
        /\ groqCalls[r] > 0 => (IsPdf(r) \/ IsQuery(r))
        /\ 200 \in Statuses(r) => geminiCalls[r] + groqCalls[r] = 1

C7_Witness ==
    \E r1, r2 \in Reqs :
        /\ IsContract(r1) /\ Terminal(r1) /\ OutcomeKind(r1) = "reject"
        /\ geminiCalls[r1] = 1
        /\ IsPdf(r2) /\ 200 \in Statuses(r2) /\ groqCalls[r2] = 1

\* C8: on /analyzepdf, once extraction has succeeded the text sent to Groq
\* is the extracted text followed by the comparison instruction, and the
\* request ends in a 200 whose pdfContent is the extracted text.
ComparisonInstruction ==
    "\n\nCompare it with new Indian laws and highlight what are added or removed (changes)."

C8_PdfContentIsExtractedText ==
    \A r \in Reqs :
        (IsPdf(r) /\ pdfText[r] # None) =>
            /\ prompt[r] = Some(pdfText[r][1] \o ComparisonInstruction)
            /\ Terminal(r) =>
                   /\ Len(responses[r]) = 1
                   /\ responses[r][1].status = 200
                   /\ responses[r][1].body.pdfContent = pdfText[r][1]

C8_Witness ==
    \E r1, r2 \in Reqs :
        /\ IsPdf(r1) /\ Terminal(r1) /\ pdfText[r1] = Some("Lease deed")
        /\ OutcomeKind(r1) = "reject"
        /\ IsPdf(r2) /\ Terminal(r2) /\ pdfText[r2] # None
        /\ OutcomeKind(r2) = "choices"
        /\ outcome[r2][1].choices = <<Some("answer")>>

\* C9: the analysis in a 200 response of /analyzecontract is the provider's
\* text without its '*' characters, the others kept in order; "*Risk*"
\* gives "Risk".
NotStar(c) == c # "*"

C9_AnalysisHasNoStars ==
    \A r \in Reqs :
        (IsContract(r) /\ 200 \in Statuses(r)) =>
            LET analysis == responses[r][1].body.analysis
                text == outcome[r][1].text
            IN /\ \A i \in DOMAIN analysis : analysis[i] # "*"
               /\ analysis = SelectSeq(text, NotStar)
               /\ text = RiskText => analysis = <<"R", "i", "s", "k">>

C9_Witness ==
    \E r1, r2 \in Reqs :
        /\ IsContract(r1) /\ 200 \in Statuses(r1)
        /\ outcome[r1][1].text = RiskText
        /\ IsContract(r2) /\ 200 \in Statuses(r2)
        /\ outcome[r2][1].text = <<"*", "a">>

\* C10: the steps of an /analyzecontract request are logged in the order
\* staged, read, invoked, responded, unlinked; the staged file is present
\* from the read until the request's own deletion; a deletion is preceded
\* by the 200 response.
Rank(e) ==
    CASE e = "staged" -> 1
      [] e \in {"read", "readFailed"} -> 2
      [] e = "invoked" -> 3
      [] e \in {"responded200", "responded500"} -> 4
      [] e \in {"unlinked", "unlinkFailed"} -> 5
      [] OTHER -> 0

Events(r) == {log[r][i] : i \in DOMAIN log[r]}

C10_StagedReadInvokedRespondedDeleted ==
    \A r \in Reqs :
        IsContract(r) =>
            /\ \A i, j \in DOMAIN log[r] :
                   i < j => Rank(log[r][i]) < Rank(log[r][j])
            /\ "read" \in Events(r) => "staged" \in Events(r)
            /\ "invoked" \in Events(r) => "read" \in Events(r)
            /\ "unlinked" \in Events(r) => "responded200" \in Events(r)
            /\ ("read" \in Events(r) /\ "unlinked" \notin Events(r))
                   => FilePath(r) \in files
            /\ (req[r].file # None /\ 200 \notin Statuses(r))
                   => FilePath(r) \in files

C10_Witness ==
    \E r1, r2 \in Reqs :
        /\ log[r1] = <<"staged", "read", "invoked", "responded200",
                       "unlinked">>
        /\ FilePath(r1) \notin files
        /\ log[r2] = <<"staged", "read", "invoked">>
        /\ FilePath(r2) \in files
====
